---------------------------- MODULE Spec2Model ----------------------------
(***************************************************************************)
(* Model of go-yaml-event: the event adapter (go-yaml-patch/events.go:     *)
(* Parser, NewParser, Next, Close) and the inspection driver (main.go).    *)
(*                                                                         *)
(* The parsing engine (yaml_parser_t of go-yaml) is external: it is        *)
(* modelled as the sequence of results its parse primitive will deliver on *)
(* successive calls, drawn arbitrarily from bounded sets.                  *)
(***************************************************************************)
EXTENDS Integers, Sequences, FiniteSets, TLC

VARIABLES
    engine,     \* results yaml_parser_parse will deliver, in order
    parser,     \* p.parser: the engine fields Next reads (error, problem)
    done,       \* p.done
    closes,     \* number of Parser.Close calls executed
    calls,      \* number of Parser.Next calls executed
    yamlEvent,  \* the internal event filled in by the latest parse call
    res,        \* what the latest Parser.Next call returned
    delivered,  \* history: the results the engine has delivered so far
    deletes,    \* number of yaml_event_delete calls executed
    mem,        \* the engine's comment buffers and its allocation policy
    kept,       \* the first event Next returned, which the caller keeps,
                \* and the buffers its comment slices point into
    created,    \* an adapter exists (NewParser returned one)
    failed,     \* history: some Next call has returned an error
    pc,         \* position of main
    stdout,     \* blocks written by main to standard output
    stderr,     \* lines written by main to standard error
    status,     \* process exit status (-1 while running)
    returned,   \* events main has received from Next so far
    probeEvent, \* an Event value a caller holds and asks the style of
    probeStyle  \* what Event.StyleString returned for it ("unset" before)

vars == <<engine, parser, done, closes, calls, yamlEvent, res, delivered,
          deletes, mem, kept, created, failed,
          pc, stdout, stderr, status, returned, probeEvent, probeStyle>>

adapterVars == <<engine, parser, done, yamlEvent, res, delivered, deletes, mem, kept>>
driverVars  == <<pc, stdout, stderr, status, returned>>
probeVars   == <<probeEvent, probeStyle>>

----------------------------------------------------------------------------
(* Bounds *)

MaxLen   == 3      \* longest engine script
MaxCalls == 5      \* Next calls a free client makes
MaxLine  == 1      \* largest line number of a mark

----------------------------------------------------------------------------
(* Public event kinds, events.go:11-23 (iota) *)

EventNone          == 0
EventStreamStart   == 1
EventStreamEnd     == 2
EventDocumentStart == 3
EventDocumentEnd   == 4
EventAlias         == 5
EventScalar        == 6
EventSequenceStart == 7
EventSequenceEnd   == 8
EventMappingStart  == 9
EventMappingEnd    == 10

(* Internal event kinds of the engine (yaml_event_type_t) *)
RecognizedKinds ==
    { "yaml_STREAM_START_EVENT", "yaml_STREAM_END_EVENT",
      "yaml_DOCUMENT_START_EVENT", "yaml_DOCUMENT_END_EVENT",
      "yaml_ALIAS_EVENT", "yaml_SCALAR_EVENT",
      "yaml_SEQUENCE_START_EVENT", "yaml_SEQUENCE_END_EVENT",
      "yaml_MAPPING_START_EVENT", "yaml_MAPPING_END_EVENT" }

UnrecognizedKinds == { "yaml_NO_EVENT", "yaml_TAIL_COMMENT_EVENT" }

InternalKinds == RecognizedKinds \cup UnrecognizedKinds

yaml_NO_ERROR == "yaml_NO_ERROR"

EngineErrors == { yaml_NO_ERROR, "yaml_SCANNER_ERROR", "yaml_PARSER_ERROR" }

----------------------------------------------------------------------------
(* Go values *)

\* a []byte: nil, or a (possibly empty) sequence of bytes
NilBytes   == [isnil |-> TRUE,  data |-> <<>>]
Bytes(s)   == [isnil |-> FALSE, data |-> s]

\* string(b) for a []byte b: a fresh string, "" for nil and for empty
GoString(b) == IF b.isnil THEN <<>> ELSE b.data

\* len(b)
GoLen(b) == Len(b.data)

Mark(i, l, c) == [Index |-> i, Line |-> l, Column |-> c]

ZeroMark == Mark(0, 0, 0)

\* the zero value of Event, events.go:53-66
ZeroEvent ==
    [ Type |-> EventNone, Value |-> <<>>, Anchor |-> <<>>, Tag |-> <<>>,
      Style |-> 0, Implicit |-> FALSE,
      StartMark |-> ZeroMark, EndMark |-> ZeroMark,
      HeadComment |-> NilBytes, LineComment |-> NilBytes,
      FootComment |-> NilBytes, TailComment |-> NilBytes ]

\* the zero value of yaml_event_t
ZeroYamlEvent ==
    [ typ |-> "yaml_NO_EVENT",
      start_mark |-> [index |-> 0, line |-> 0, column |-> 0],
      end_mark   |-> [index |-> 0, line |-> 0, column |-> 0],
      value |-> NilBytes, anchor |-> NilBytes, tag |-> NilBytes,
      implicit |-> FALSE, style |-> 0,
      head_comment |-> NilBytes, line_comment |-> NilBytes,
      foot_comment |-> NilBytes, tail_comment |-> NilBytes ]

\* mutant of ParseErrorf: the engine's problem text is dropped
ParseErrorf_NoProblem(prob) == <<"parser error: ", "">>

\* the error values Next and NewParser build with fmt.Errorf
NoError            == <<>>
ParseErrorf(prob)  == <<"parser error: ", prob>>
InitError          == <<"failed to initialize YAML parser">>

\* results of Next: (nil, nil), (nil, err), (event, nil)
NilNil         == [present |-> FALSE, event |-> ZeroEvent, err |-> NoError]
NilErr(e)      == [present |-> FALSE, event |-> ZeroEvent, err |-> e]
EventNil(ev)   == [present |-> TRUE,  event |-> ev,        err |-> NoError]


----------------------------------------------------------------------------
(* The engine: what one yaml_parser_parse call can deliver *)

\* parse returned true and filled the event
ParseOk(ye) == [ok |-> TRUE, error |-> yaml_NO_ERROR, problem |-> "", event |-> ye]

\* parse returned false, leaving parser.error = e and parser.problem = prob
ParseFail(e, prob) == [ok |-> FALSE, error |-> e, problem |-> prob, event |-> ZeroYamlEvent]

Problems == { "did not find expected key", "found unexpected end of stream" }

FailResults ==
    { ParseFail(yaml_NO_ERROR, "") }
    \cup { ParseFail(e, prob) : e \in EngineErrors \ {yaml_NO_ERROR}, prob \in Problems }

RawStyles == { 0, 1, 2, 4, 32 }

ByteTexts(c) == { NilBytes, Bytes(<<c>>) }

CommentTexts(c) == { NilBytes, Bytes(<<>>), Bytes(<<c>>) }

\* start/end marks of an internal event; end >= start
MarkPairs ==
    { << [index |-> 10 * l + 1, line |-> l, column |-> 1],
         [index |-> 10 * l + 4, line |-> l + 1, column |-> 4] >> : l \in 0 .. MaxLine }

\* every internal event the engine may fill in, whatever its kind
AllYamlEvents ==
    { [ typ |-> k, start_mark |-> m[1], end_mark |-> m[2],
        value |-> v, anchor |-> a, tag |-> t, implicit |-> i, style |-> s,
        head_comment |-> hc, line_comment |-> lc,
        foot_comment |-> fc, tail_comment |-> tc ] :
      k \in InternalKinds, m \in MarkPairs,
      v \in ByteTexts("v"), a \in ByteTexts("a"), t \in ByteTexts("t"),
      i \in BOOLEAN, s \in RawStyles,
      hc \in CommentTexts("h"), lc \in CommentTexts("l"),
      fc \in CommentTexts("f"), tc \in CommentTexts("x") }

\* one fully populated internal event of kind k on line l
FullYamlEvent(k, l) ==
    [ typ |-> k,
      start_mark |-> [index |-> 10 * l + 1, line |-> l, column |-> 1],
      end_mark   |-> [index |-> 10 * l + 4, line |-> l + 1, column |-> 4],
      value |-> Bytes(<<"v">>), anchor |-> Bytes(<<"a">>), tag |-> Bytes(<<"t">>),
      implicit |-> TRUE, style |-> 2,
      head_comment |-> Bytes(<<"h">>), line_comment |-> NilBytes,
      foot_comment |-> Bytes(<<>>), tail_comment |-> Bytes(<<"x">>) ]

ScriptKinds ==
    { "yaml_STREAM_START_EVENT", "yaml_STREAM_END_EVENT",
      "yaml_SCALAR_EVENT", "yaml_MAPPING_START_EVENT", "yaml_NO_EVENT" }

\* the results a multi-call script is built from
ScriptResults ==
    FailResults \cup { ParseOk(FullYamlEvent(k, 0)) : k \in ScriptKinds }

\* the results a single-call script is built from
AllResults == FailResults \cup { ParseOk(ye) : ye \in AllYamlEvents }

Scripts == UNION { [1 .. n -> ScriptResults] : n \in 0 .. MaxLen }

----------------------------------------------------------------------------
(* Storage of the comment slices.  The engine keeps one current buffer per  *)
(* comment slot; gen numbers the buffers it has allocated for the slot (0:  *)
(* none yet).  A []byte copied as a slice value (events.go:158-161) points  *)
(* into the buffer of the slice it was copied from; string(b)               *)
(* (events.go:178-197) copies the bytes.                                    *)

CommentSlots == {"HeadComment", "LineComment", "FootComment", "TailComment"}

\* the comment slice of an internal event that events.go:158-161 reads for
\* a field of Event
InternalComment(ye, slot) ==
    CASE slot = "HeadComment" -> ye.head_comment
      [] slot = "LineComment" -> ye.line_comment
      [] slot = "FootComment" -> ye.foot_comment
      [] slot = "TailComment" -> ye.tail_comment

NoBuffers == [slot \in CommentSlots |-> [gen |-> 0, data |-> <<>>]]

\* the engine fills in the comments of ye: a nil comment needs no buffer; an
\* engine that recycles writes over its current buffer when the text fits;
\* otherwise a new buffer is allocated
EngineStore(m, ye) ==
    [ m EXCEPT !.buf =
        [ slot \in CommentSlots |->
            LET c   == InternalComment(ye, slot)
                old == m.buf[slot]
            IN  IF c.isnil THEN old
                ELSE IF m.recycles /\ old.gen > 0 /\ Len(c.data) <= Len(old.data)
                     THEN [gen |-> old.gen,
                           data |-> c.data \o SubSeq(old.data, Len(c.data) + 1, Len(old.data))]
                     ELSE [gen |-> old.gen + 1, data |-> c.data] ] ]

\* events.go:158-161: the buffers the four comment fields of the returned
\* event point into (0: a nil slice): those of the internal event
EventBuffers(m, ye) ==
    [ slot \in CommentSlots |->
        IF InternalComment(ye, slot).isnil THEN 0 ELSE m.buf[slot].gen ]

NothingKept == [set |-> FALSE, event |-> ZeroEvent,
                buf |-> [slot \in CommentSlots |-> 0]]

\* what the caller reads now in a comment field of the event it keeps
KeptComment(slot) ==
    IF kept.buf[slot] # 0 /\ kept.buf[slot] = mem.buf[slot].gen
    THEN Bytes(SubSeq(mem.buf[slot].data, 1, Len(kept.event[slot].data)))
    ELSE kept.event[slot]

\* the event the caller keeps, as it reads now
KeptEvent ==
    [ kept.event EXCEPT !.HeadComment = KeptComment("HeadComment"),
                        !.LineComment = KeptComment("LineComment"),
                        !.FootComment = KeptComment("FootComment"),
                        !.TailComment = KeptComment("TailComment") ]

----------------------------------------------------------------------------
(* Parser.Next, events.go:133-206 *)

\* mutant of HardError: the error state is never consulted
HardError_Never(prs) == FALSE

\* events.go:140: the engine's error state is not the no-error value
HardError(prs) == prs.error # yaml_NO_ERROR

\* mutant of BaseEvent: the line comment is copied from the head comment
BaseEvent_CopyPaste(ye) ==
    [ ZeroEvent EXCEPT
        !.StartMark = Mark(ye.start_mark.index, ye.start_mark.line, ye.start_mark.column),
        !.EndMark   = Mark(ye.end_mark.index, ye.end_mark.line, ye.end_mark.column),
        !.HeadComment = ye.head_comment,
        !.LineComment = ye.head_comment,
        !.FootComment = ye.foot_comment,
        !.TailComment = ye.tail_comment ]

\* events.go:147-162: positions and comments, for every kind
BaseEvent(ye) ==
    [ ZeroEvent EXCEPT
        !.StartMark = Mark(ye.start_mark.index, ye.start_mark.line, ye.start_mark.column),
        !.EndMark   = Mark(ye.end_mark.index, ye.end_mark.line, ye.end_mark.column),
        !.HeadComment = ye.head_comment,
        !.LineComment = ye.line_comment,
        !.FootComment = ye.foot_comment,
        !.TailComment = ye.tail_comment ]

\* mutant of FillKind: the sequence-end case yields the mapping-end kind
FillKind_SwapEnd(event, ye) ==
    CASE ye.typ = "yaml_STREAM_START_EVENT" ->
            [event EXCEPT !.Type = EventStreamStart]
      [] ye.typ = "yaml_STREAM_END_EVENT" ->
            [event EXCEPT !.Type = EventStreamEnd]
      [] ye.typ = "yaml_DOCUMENT_START_EVENT" ->
            [event EXCEPT !.Type = EventDocumentStart, !.Implicit = ye.implicit]
      [] ye.typ = "yaml_DOCUMENT_END_EVENT" ->
            [event EXCEPT !.Type = EventDocumentEnd, !.Implicit = ye.implicit]
      [] ye.typ = "yaml_ALIAS_EVENT" ->
            [event EXCEPT !.Type = EventAlias, !.Anchor = GoString(ye.anchor)]
      [] ye.typ = "yaml_SCALAR_EVENT" ->
            [event EXCEPT !.Type = EventScalar,
                          !.Value = GoString(ye.value),
                          !.Anchor = GoString(ye.anchor),
                          !.Tag = GoString(ye.tag),
                          !.Implicit = ye.implicit,
                          !.Style = ye.style]
      [] ye.typ = "yaml_SEQUENCE_START_EVENT" ->
            [event EXCEPT !.Type = EventSequenceStart,
                          !.Anchor = GoString(ye.anchor),
                          !.Tag = GoString(ye.tag),
                          !.Implicit = ye.implicit,
                          !.Style = ye.style]
      [] ye.typ = "yaml_SEQUENCE_END_EVENT" ->
            [event EXCEPT !.Type = EventMappingEnd]
      [] ye.typ = "yaml_MAPPING_START_EVENT" ->
            [event EXCEPT !.Type = EventMappingStart,
                          !.Anchor = GoString(ye.anchor),
                          !.Tag = GoString(ye.tag),
                          !.Implicit = ye.implicit,
                          !.Style = ye.style]
      [] ye.typ = "yaml_MAPPING_END_EVENT" ->
            [event EXCEPT !.Type = EventMappingEnd]
      [] OTHER -> event

\* mutant of FillKind: the sequence-end case also copies the anchor
FillKind_EndAnchor(event, ye) ==
    CASE ye.typ = "yaml_STREAM_START_EVENT" ->
            [event EXCEPT !.Type = EventStreamStart]
      [] ye.typ = "yaml_STREAM_END_EVENT" ->
            [event EXCEPT !.Type = EventStreamEnd]
      [] ye.typ = "yaml_DOCUMENT_START_EVENT" ->
            [event EXCEPT !.Type = EventDocumentStart, !.Implicit = ye.implicit]
      [] ye.typ = "yaml_DOCUMENT_END_EVENT" ->
            [event EXCEPT !.Type = EventDocumentEnd, !.Implicit = ye.implicit]
      [] ye.typ = "yaml_ALIAS_EVENT" ->
            [event EXCEPT !.Type = EventAlias, !.Anchor = GoString(ye.anchor)]
      [] ye.typ = "yaml_SCALAR_EVENT" ->
            [event EXCEPT !.Type = EventScalar,
                          !.Value = GoString(ye.value),
                          !.Anchor = GoString(ye.anchor),
                          !.Tag = GoString(ye.tag),
                          !.Implicit = ye.implicit,
                          !.Style = ye.style]
      [] ye.typ = "yaml_SEQUENCE_START_EVENT" ->
            [event EXCEPT !.Type = EventSequenceStart,
                          !.Anchor = GoString(ye.anchor),
                          !.Tag = GoString(ye.tag),
                          !.Implicit = ye.implicit,
                          !.Style = ye.style]
      [] ye.typ = "yaml_SEQUENCE_END_EVENT" ->
            [event EXCEPT !.Type = EventSequenceEnd, !.Anchor = GoString(ye.anchor)]
      [] ye.typ = "yaml_MAPPING_START_EVENT" ->
            [event EXCEPT !.Type = EventMappingStart,
                          !.Anchor = GoString(ye.anchor),
                          !.Tag = GoString(ye.tag),
                          !.Implicit = ye.implicit,
                          !.Style = ye.style]
      [] ye.typ = "yaml_MAPPING_END_EVENT" ->
            [event EXCEPT !.Type = EventMappingEnd]
      [] OTHER -> event

\* mutant of FillKind: the mapping-end case is missing
FillKind_NoMappingEnd(event, ye) ==
    CASE ye.typ = "yaml_STREAM_START_EVENT" ->
            [event EXCEPT !.Type = EventStreamStart]
      [] ye.typ = "yaml_STREAM_END_EVENT" ->
            [event EXCEPT !.Type = EventStreamEnd]
      [] ye.typ = "yaml_DOCUMENT_START_EVENT" ->
            [event EXCEPT !.Type = EventDocumentStart, !.Implicit = ye.implicit]
      [] ye.typ = "yaml_DOCUMENT_END_EVENT" ->
            [event EXCEPT !.Type = EventDocumentEnd, !.Implicit = ye.implicit]
      [] ye.typ = "yaml_ALIAS_EVENT" ->
            [event EXCEPT !.Type = EventAlias, !.Anchor = GoString(ye.anchor)]
      [] ye.typ = "yaml_SCALAR_EVENT" ->
            [event EXCEPT !.Type = EventScalar,
                          !.Value = GoString(ye.value),
                          !.Anchor = GoString(ye.anchor),
                          !.Tag = GoString(ye.tag),
                          !.Implicit = ye.implicit,
                          !.Style = ye.style]
      [] ye.typ = "yaml_SEQUENCE_START_EVENT" ->
            [event EXCEPT !.Type = EventSequenceStart,
                          !.Anchor = GoString(ye.anchor),
                          !.Tag = GoString(ye.tag),
                          !.Implicit = ye.implicit,
                          !.Style = ye.style]
      [] ye.typ = "yaml_SEQUENCE_END_EVENT" ->
            [event EXCEPT !.Type = EventSequenceEnd]
      [] ye.typ = "yaml_MAPPING_START_EVENT" ->
            [event EXCEPT !.Type = EventMappingStart,
                          !.Anchor = GoString(ye.anchor),
                          !.Tag = GoString(ye.tag),
                          !.Implicit = ye.implicit,
                          !.Style = ye.style]
      [] OTHER -> event

\* events.go:164-202: the switch on yamlEvent.typ
FillKind(event, ye) ==
    CASE ye.typ = "yaml_STREAM_START_EVENT" ->
            [event EXCEPT !.Type = EventStreamStart]
      [] ye.typ = "yaml_STREAM_END_EVENT" ->
            [event EXCEPT !.Type = EventStreamEnd]
      [] ye.typ = "yaml_DOCUMENT_START_EVENT" ->
            [event EXCEPT !.Type = EventDocumentStart, !.Implicit = ye.implicit]
      [] ye.typ = "yaml_DOCUMENT_END_EVENT" ->
            [event EXCEPT !.Type = EventDocumentEnd, !.Implicit = ye.implicit]
      [] ye.typ = "yaml_ALIAS_EVENT" ->
            [event EXCEPT !.Type = EventAlias, !.Anchor = GoString(ye.anchor)]
      [] ye.typ = "yaml_SCALAR_EVENT" ->
            [event EXCEPT !.Type = EventScalar,
                          !.Value = GoString(ye.value),
                          !.Anchor = GoString(ye.anchor),
                          !.Tag = GoString(ye.tag),
                          !.Implicit = ye.implicit,
                          !.Style = ye.style]
      [] ye.typ = "yaml_SEQUENCE_START_EVENT" ->
            [event EXCEPT !.Type = EventSequenceStart,
                          !.Anchor = GoString(ye.anchor),
                          !.Tag = GoString(ye.tag),
                          !.Implicit = ye.implicit,
                          !.Style = ye.style]
      [] ye.typ = "yaml_SEQUENCE_END_EVENT" ->
            [event EXCEPT !.Type = EventSequenceEnd]
      [] ye.typ = "yaml_MAPPING_START_EVENT" ->
            [event EXCEPT !.Type = EventMappingStart,
                          !.Anchor = GoString(ye.anchor),
                          !.Tag = GoString(ye.tag),
                          !.Implicit = ye.implicit,
                          !.Style = ye.style]
      [] ye.typ = "yaml_MAPPING_END_EVENT" ->
            [event EXCEPT !.Type = EventMappingEnd]
      [] OTHER -> event

\* mutant of MarksDone: the stream-end case forgets p.done = true
MarksDone_Never(typ) == FALSE

\* events.go:167-169: the only case of the switch that sets p.done
MarksDone(typ) == typ = "yaml_STREAM_END_EVENT"

\* mutant of NextOnFailure: a hard error also marks the stream complete
NextOnFailure_Latch ==
    IF HardError(parser')
    THEN /\ res' = NilErr(ParseErrorf(parser'.problem))
         /\ done' = TRUE
         /\ UNCHANGED <<deletes, kept>>
    ELSE /\ res' = NilNil
         /\ done' = TRUE
         /\ UNCHANGED <<deletes, kept>>

\* events.go:140-144: parse reported failure
NextOnFailure ==
    IF HardError(parser')
    THEN /\ res' = NilErr(ParseErrorf(parser'.problem))
         /\ done' = done
         /\ UNCHANGED <<deletes, kept>>
    ELSE /\ res' = NilNil
         /\ done' = TRUE
         /\ UNCHANGED <<deletes, kept>>

\* mutant of NextOnEvent: the internal record is released in the recognized
\* cases of the switch only
NextOnEvent_DeleteInCases ==
    /\ res' = EventNil(FillKind(BaseEvent(yamlEvent'), yamlEvent'))
    /\ done' = (done \/ MarksDone(yamlEvent'.typ))
    /\ deletes' = IF yamlEvent'.typ \in RecognizedKinds THEN deletes + 1 ELSE deletes
    /\ kept' = IF kept.set THEN kept
               ELSE [set |-> TRUE, event |-> res'.event,
                     buf |-> EventBuffers(mem', yamlEvent')]

\* events.go:147-205: parse filled in yamlEvent; the event is translated,
\* then the internal record is released (events.go:204)
NextOnEvent ==
    /\ res' = EventNil(FillKind(BaseEvent(yamlEvent'), yamlEvent'))
    /\ done' = (done \/ MarksDone(yamlEvent'.typ))
    /\ deletes' = deletes + 1
    /\ kept' = IF kept.set THEN kept
               ELSE [set |-> TRUE, event |-> res'.event,
                     buf |-> EventBuffers(mem', yamlEvent')]

\* mutant of ParserNext: the engine is asked before p.done is looked at
ParserNext_ParseFirst ==
    /\ engine # <<>>
    /\ engine' = Tail(engine)
    /\ delivered' = Append(delivered, Head(engine))
    /\ IF done
       THEN /\ res' = NilNil
            /\ yamlEvent' = ZeroYamlEvent
            /\ UNCHANGED <<parser, done, deletes, mem, kept>>
       ELSE IF Head(engine).ok
            THEN /\ yamlEvent' = Head(engine).event
                 /\ mem' = EngineStore(mem, Head(engine).event)
                 /\ parser' = parser
                 /\ NextOnEvent
            ELSE /\ yamlEvent' = ZeroYamlEvent
                 /\ mem' = mem
                 /\ parser' = [error |-> Head(engine).error,
                               problem |-> Head(engine).problem]
                 /\ NextOnFailure

\* events.go:133-206
ParserNext ==
    IF done
    THEN /\ res' = NilNil
         /\ yamlEvent' = ZeroYamlEvent
         /\ UNCHANGED <<engine, parser, done, delivered, deletes, mem, kept>>
    ELSE /\ engine # <<>>
         /\ engine' = Tail(engine)
         /\ delivered' = Append(delivered, Head(engine))
         /\ IF Head(engine).ok
            THEN /\ yamlEvent' = Head(engine).event
                 /\ mem' = EngineStore(mem, Head(engine).event)
                 /\ parser' = parser
                 /\ NextOnEvent
            ELSE /\ yamlEvent' = ZeroYamlEvent
                 /\ mem' = mem
                 /\ parser' = [error |-> Head(engine).error,
                               problem |-> Head(engine).problem]
                 /\ NextOnFailure

\* events.go:208-211
ParserClose ==
    /\ closes' = closes + 1

----------------------------------------------------------------------------
(* A client that owns an adapter and calls Next and Close in any order     *)
(* the contract allows: Next only before Close, Close once.                *)

NoParserState == [error |-> yaml_NO_ERROR, problem |-> ""]

\* events.go:123-130 succeeded: a fresh adapter bound to an input
AdapterInit ==
    /\ parser = NoParserState
    /\ done = FALSE
    /\ closes = 0
    /\ calls = 0
    /\ yamlEvent = ZeroYamlEvent
    /\ res = NilNil
    /\ delivered = <<>>
    /\ deletes = 0
    /\ kept = NothingKept

NoProbe ==
    /\ probeEvent = ZeroEvent
    /\ probeStyle = "unset"

DriverIdle ==
    /\ pc = "client"
    /\ NoProbe
    /\ stdout = <<>>
    /\ stderr = <<>>
    /\ status = -1
    /\ returned = <<>>

Init ==
    /\ engine \in Scripts
    /\ AdapterInit
    /\ mem = [recycles |-> FALSE, buf |-> NoBuffers]
    /\ created = TRUE
    /\ failed = FALSE
    /\ DriverIdle

ClientNext ==
    /\ pc = "client"
    /\ UNCHANGED probeVars
    /\ closes = 0
    /\ calls < MaxCalls
    /\ ParserNext
    /\ calls' = calls + 1
    /\ failed' = (failed \/ res'.err # NoError)
    /\ UNCHANGED <<closes, created, driverVars>>

ClientClose ==
    /\ pc = "client"
    /\ UNCHANGED probeVars
    /\ closes = 0
    /\ ParserClose
    /\ UNCHANGED <<adapterVars, calls, created, failed, driverVars>>

Next == ClientNext \/ ClientClose

Spec == Init /\ [][Next]_vars

\* the same client over an engine that delivers any single result
InitOne ==
    /\ engine \in { <<r>> : r \in AllResults }
    /\ AdapterInit
    /\ mem = [recycles |-> FALSE, buf |-> NoBuffers]
    /\ created = TRUE
    /\ failed = FALSE
    /\ DriverIdle

SpecOne == InitOne /\ [][Next]_vars

\* the same client over an engine that delivers two results with various
\* head comments and that may recycle its comment buffers
AliasResults ==
    { ParseFail(yaml_NO_ERROR, "") }
    \cup { ParseOk([FullYamlEvent(k, l) EXCEPT !.head_comment = c]) :
             k \in {"yaml_SCALAR_EVENT", "yaml_ALIAS_EVENT"},
             l \in 0 .. MaxLine,
             c \in {NilBytes, Bytes(<<"h">>), Bytes(<<"g">>)} }

InitAlias ==
    /\ engine \in [1 .. 2 -> AliasResults]
    /\ AdapterInit
    /\ mem \in { [recycles |-> b, buf |-> NoBuffers] : b \in BOOLEAN }
    /\ created = TRUE
    /\ failed = FALSE
    /\ DriverIdle

SpecAlias == InitAlias /\ [][Next]_vars


----------------------------------------------------------------------------
(* Rendering, events.go:25-50, events.go:68-107 and main.go:32-82.         *)
(* A Go string is a sequence of characters; an output line is a sequence   *)
(* of strings: its fixed text followed by the formatted arguments.         *)

\* style codes of the engine (yaml_scalar_style_t, yaml_sequence_style_t,
\* yaml_mapping_style_t), named where events.go uses them
yaml_PLAIN_SCALAR_STYLE         == 2
yaml_SINGLE_QUOTED_SCALAR_STYLE == 4
yaml_DOUBLE_QUOTED_SCALAR_STYLE == 8
yaml_LITERAL_SCALAR_STYLE       == 16
yaml_FOLDED_SCALAR_STYLE        == 32
yaml_BLOCK_SEQUENCE_STYLE       == 1
yaml_FLOW_SEQUENCE_STYLE        == 2
yaml_BLOCK_MAPPING_STYLE        == 1
yaml_FLOW_MAPPING_STYLE         == 2

\* events.go:25-50
EventTypeString(e) ==
    CASE e = EventStreamStart   -> "STREAM-START"
      [] e = EventStreamEnd     -> "STREAM-END"
      [] e = EventDocumentStart -> "DOCUMENT-START"
      [] e = EventDocumentEnd   -> "DOCUMENT-END"
      [] e = EventAlias         -> "ALIAS"
      [] e = EventScalar        -> "SCALAR"
      [] e = EventSequenceStart -> "SEQUENCE-START"
      [] e = EventSequenceEnd   -> "SEQUENCE-END"
      [] e = EventMappingStart  -> "MAPPING-START"
      [] e = EventMappingEnd    -> "MAPPING-END"
      [] OTHER                  -> "NONE"

\* mutant of StyleString: the outer default also answers "any"
StyleString_OuterAny(e) ==
    CASE e.Type = EventScalar ->
            CASE e.Style = yaml_PLAIN_SCALAR_STYLE         -> "plain"
              [] e.Style = yaml_SINGLE_QUOTED_SCALAR_STYLE -> "single-quoted"
              [] e.Style = yaml_DOUBLE_QUOTED_SCALAR_STYLE -> "double-quoted"
              [] e.Style = yaml_LITERAL_SCALAR_STYLE       -> "literal"
              [] e.Style = yaml_FOLDED_SCALAR_STYLE        -> "folded"
              [] OTHER                                     -> "any"
      [] e.Type = EventSequenceStart ->
            CASE e.Style = yaml_FLOW_SEQUENCE_STYLE  -> "flow"
              [] e.Style = yaml_BLOCK_SEQUENCE_STYLE -> "block"
              [] OTHER                               -> "any"
      [] e.Type = EventMappingStart ->
            CASE e.Style = yaml_FLOW_MAPPING_STYLE  -> "flow"
              [] e.Style = yaml_BLOCK_MAPPING_STYLE -> "block"
              [] OTHER                              -> "any"
      [] OTHER -> "any"

\* events.go:68-107
StyleString(e) ==
    CASE e.Type = EventScalar ->
            CASE e.Style = yaml_PLAIN_SCALAR_STYLE         -> "plain"
              [] e.Style = yaml_SINGLE_QUOTED_SCALAR_STYLE -> "single-quoted"
              [] e.Style = yaml_DOUBLE_QUOTED_SCALAR_STYLE -> "double-quoted"
              [] e.Style = yaml_LITERAL_SCALAR_STYLE       -> "literal"
              [] e.Style = yaml_FOLDED_SCALAR_STYLE        -> "folded"
              [] OTHER                                     -> "any"
      [] e.Type = EventSequenceStart ->
            CASE e.Style = yaml_FLOW_SEQUENCE_STYLE  -> "flow"
              [] e.Style = yaml_BLOCK_SEQUENCE_STYLE -> "block"
              [] OTHER                               -> "any"
      [] e.Type = EventMappingStart ->
            CASE e.Style = yaml_FLOW_MAPPING_STYLE  -> "flow"
              [] e.Style = yaml_BLOCK_MAPPING_STYLE -> "block"
              [] OTHER                              -> "any"
      [] OTHER -> ""

\* %q of a string of plain characters
Quoted(str) == <<"\"">> \o str \o <<"\"">>

\* %v of a bool
BoolString(b) == IF b THEN "true" ELSE "false"

\* main.go:33-37
HeaderLines(event) ==
    << <<"- Event: ", EventTypeString(event.Type)>>,
       <<"  Start: {Line: ", ToString(event.StartMark.Line + 1),
         ", Column: ", ToString(event.StartMark.Column), "}">>,
       <<"  End: {Line: ", ToString(event.EndMark.Line + 1),
         ", Column: ", ToString(event.EndMark.Column), "}">> >>

\* mutant of CommentLine: only the nil test is made
CommentLine_NonNil(label, c) ==
    IF ~c.isnil
    THEN << <<label>> \o Quoted(GoString(c)) >>
    ELSE << >>

\* main.go:40-42, 43-45, 46-48, 49-51: one comment field
CommentLine(label, c) ==
    IF ~c.isnil /\ GoLen(c) > 0
    THEN << <<label>> \o Quoted(GoString(c)) >>
    ELSE << >>

\* main.go:39-51
CommentLines(event) ==
    CommentLine("  HeadComment: ", event.HeadComment)
    \o CommentLine("  LineComment: ", event.LineComment)
    \o CommentLine("  FootComment: ", event.FootComment)
    \o CommentLine("  TailComment: ", event.TailComment)

\* mutant of StyleLine: the collection case also compares with "plain"
StyleLine_AlwaysPlain(event, default) ==
    IF StyleString(event) # "" /\ StyleString(event) # "plain"
    THEN << <<"  Style: ", StyleString(event)>> >>
    ELSE << >>

\* main.go:56-58 and 69-71
StyleLine(event, default) ==
    IF StyleString(event) # "" /\ StyleString(event) # default
    THEN << <<"  Style: ", StyleString(event)>> >>
    ELSE << >>

\* main.go:59-61 and 72-74
TagLine(event) ==
    IF event.Tag # <<>> THEN << <<"  Tag: ">> \o event.Tag >> ELSE << >>

\* main.go:62-64 and 75-77
AnchorLine(event) ==
    IF event.Anchor # <<>> THEN << <<"  Anchor: ">> \o event.Anchor >> ELSE << >>

\* main.go:65, 78, 80
ImplicitLine(event) == << <<"  Implicit: ", BoolString(event.Implicit)>> >>

\* mutant of KindLines: the alias case prints its anchor only when non-empty
KindLines_AliasIfAnchor(event) ==
    CASE event.Type = EventScalar ->
            << <<"  Value: ">> \o Quoted(event.Value) >>
            \o StyleLine(event, "plain")
            \o TagLine(event) \o AnchorLine(event) \o ImplicitLine(event)
      [] event.Type = EventAlias ->
            AnchorLine(event)
      [] event.Type \in {EventSequenceStart, EventMappingStart} ->
            StyleLine(event, "block")
            \o TagLine(event) \o AnchorLine(event) \o ImplicitLine(event)
      [] event.Type \in {EventDocumentStart, EventDocumentEnd} ->
            ImplicitLine(event)
      [] OTHER -> << >>

\* main.go:53-81
KindLines(event) ==
    CASE event.Type = EventScalar ->
            << <<"  Value: ">> \o Quoted(event.Value) >>
            \o StyleLine(event, "plain")
            \o TagLine(event) \o AnchorLine(event) \o ImplicitLine(event)
      [] event.Type = EventAlias ->
            << <<"  Anchor: ">> \o event.Anchor >>
      [] event.Type \in {EventSequenceStart, EventMappingStart} ->
            StyleLine(event, "block")
            \o TagLine(event) \o AnchorLine(event) \o ImplicitLine(event)
      [] event.Type \in {EventDocumentStart, EventDocumentEnd} ->
            ImplicitLine(event)
      [] OTHER -> << >>

\* main.go:32-82: the block of one event, closed by a blank line
RenderBlock(event) ==
    HeaderLines(event) \o CommentLines(event) \o KindLines(event) \o << <<>> >>

----------------------------------------------------------------------------
(* main, main.go:14-84 *)

\* main.go:18 and main.go:26
ExitFailure == 1

\* main.go:84: main returns
ExitSuccess == 0

\* mutant of MainOnError: the failure is reported but the run ends with 0
MainOnError_ExitZero ==
    /\ stderr' = Append(stderr, <<"Parser error: ">> \o res'.err)
    /\ status' = ExitSuccess
    /\ pc' = "exited"
    /\ UNCHANGED <<closes, stdout, returned>>

\* main.go:23-27 when Next failed: report and os.Exit(1).  os.Exit ends the
\* process at once; the Close deferred at main.go:20 does not run.
MainOnError ==
    /\ stderr' = Append(stderr, <<"Parser error: ">> \o res'.err)
    /\ status' = ExitFailure
    /\ pc' = "exited"
    /\ UNCHANGED <<closes, stdout, returned>>

\* main.go:15-20
MainCreate ==
    /\ pc = "start"
    /\ UNCHANGED probeVars
    /\ \/ \* events.go:125-127: the engine cannot be initialized
          /\ stderr' = Append(stderr, <<"Error creating parser: ">> \o InitError)
          /\ status' = ExitFailure
          /\ pc' = "exited"
          /\ UNCHANGED created
       \/ \* events.go:128-129
          /\ created' = TRUE
          /\ pc' = "loop"
          /\ UNCHANGED <<stderr, status>>
    /\ UNCHANGED <<adapterVars, closes, calls, failed, stdout, returned>>

\* main.go:22-31: one Next call and the two tests on its result
MainNext ==
    /\ pc = "loop"
    /\ UNCHANGED probeVars
    /\ ParserNext
    /\ calls' = calls + 1
    /\ failed' = (failed \/ res'.err # NoError)
    /\ IF res'.err # NoError
       THEN MainOnError
       ELSE IF ~res'.present
            THEN /\ pc' = "return"
                 /\ UNCHANGED <<closes, stdout, stderr, status, returned>>
            ELSE /\ pc' = "render"
                 /\ returned' = Append(returned, res'.event)
                 /\ UNCHANGED <<closes, stdout, stderr, status>>
    /\ UNCHANGED created

\* mutant of MainRender: the comment lines come out in either order, as
\* from ranging over a map
MainRender_MapOrder ==
    /\ pc = "render"
    /\ UNCHANGED probeVars
    /\ \/ stdout' = stdout \o RenderBlock(res.event)
       \/ stdout' = stdout \o HeaderLines(res.event)
                     \o CommentLine("  TailComment: ", res.event.TailComment)
                     \o CommentLine("  FootComment: ", res.event.FootComment)
                     \o CommentLine("  LineComment: ", res.event.LineComment)
                     \o CommentLine("  HeadComment: ", res.event.HeadComment)
                     \o KindLines(res.event) \o << <<>> >>
    /\ pc' = "loop"
    /\ UNCHANGED <<adapterVars, closes, calls, created, failed, stderr, status, returned>>

\* mutant of MainRender: the block is written ahead of the earlier ones
MainRender_Prepend ==
    /\ pc = "render"
    /\ UNCHANGED probeVars
    /\ stdout' = RenderBlock(res.event) \o stdout
    /\ pc' = "loop"
    /\ UNCHANGED <<adapterVars, closes, calls, created, failed, stderr, status, returned>>

\* main.go:32-82
MainRender ==
    /\ pc = "render"
    /\ UNCHANGED probeVars
    /\ stdout' = stdout \o RenderBlock(res.event)
    /\ pc' = "loop"
    /\ UNCHANGED <<adapterVars, closes, calls, created, failed, stderr, status, returned>>

\* mutant of MainReturn: an explicit Close before the return, and the
\* deferred one after it
MainReturn_CloseTwice ==
    /\ pc = "return"
    /\ UNCHANGED probeVars
    /\ closes' = closes + 2
    /\ status' = ExitSuccess
    /\ pc' = "exited"
    /\ UNCHANGED <<adapterVars, calls, created, failed, stdout, stderr, returned>>

\* main.go:84 after the break at main.go:29: main returns, the deferred
\* Close of main.go:20 runs, the process ends with status 0
MainReturn ==
    /\ pc = "return"
    /\ UNCHANGED probeVars
    /\ ParserClose
    /\ status' = ExitSuccess
    /\ pc' = "exited"
    /\ UNCHANGED <<adapterVars, calls, created, failed, stdout, stderr, returned>>

InitDriver ==
    /\ engine \in Scripts
    /\ AdapterInit
    /\ mem = [recycles |-> FALSE, buf |-> NoBuffers]
    /\ created = FALSE
    /\ failed = FALSE
    /\ pc = "start"
    /\ stdout = <<>>
    /\ stderr = <<>>
    /\ status = -1
    /\ returned = <<>>
    /\ NoProbe

NextDriver == MainCreate \/ MainNext \/ MainRender \/ MainReturn

SpecDriver == InitDriver /\ [][NextDriver]_vars

----------------------------------------------------------------------------
(* A caller of Event.StyleString, events.go:68-107, on any Event value *)

\* the values of an EventType: the eleven constants and one beyond them
ProbeTypes == EventNone .. EventMappingEnd + 1

\* the values of a style code (yaml_style_t is an int8)
StyleCodes == -128 .. 127

ProbeEvents ==
    { [ZeroEvent EXCEPT !.Type = k, !.Style = c] : k \in ProbeTypes, c \in StyleCodes }

InitStyle ==
    /\ engine = <<>>
    /\ AdapterInit
    /\ mem = [recycles |-> FALSE, buf |-> NoBuffers]
    /\ created = FALSE
    /\ failed = FALSE
    /\ pc = "probe"
    /\ stdout = <<>>
    /\ stderr = <<>>
    /\ status = -1
    /\ returned = <<>>
    /\ probeEvent \in ProbeEvents
    /\ probeStyle = "unset"

\* events.go:69: e.StyleString()
CallStyleString ==
    /\ pc = "probe"
    /\ probeStyle = "unset"
    /\ probeStyle' = StyleString(probeEvent)
    /\ UNCHANGED <<adapterVars, closes, calls, created, failed, driverVars, probeEvent>>

NextStyle == CallStyleString

SpecStyle == InitStyle /\ [][NextStyle]_vars

----------------------------------------------------------------------------
(* main over an engine that delivers any single result *)

InitDriverOne ==
    /\ engine \in { <<r>> : r \in AllResults }
    /\ AdapterInit
    /\ mem = [recycles |-> FALSE, buf |-> NoBuffers]
    /\ created = FALSE
    /\ failed = FALSE
    /\ pc = "start"
    /\ stdout = <<>>
    /\ stderr = <<>>
    /\ status = -1
    /\ returned = <<>>
    /\ NoProbe

SpecDriverOne == InitDriverOne /\ [][NextDriver]_vars


----------------------------------------------------------------------------
(* Properties *)

\* the step is a Parser.Next call
IsNextCall == calls' = calls + 1

\* the three outcomes of a Next call
AbsentOk(r)  == ~r.present /\ r.err = NoError
AbsentErr(r) == ~r.present /\ r.err # NoError
PresentOk(r) == r.present /\ r.err = NoError

\* some Next call has returned absent with no error, or the StreamEnd event.
\* (The result of the latest call tells: nothing but absent follows either.)
Exhausted ==
    /\ calls > 0
    /\ \/ AbsentOk(res)
       \/ PresentOk(res) /\ res.event.Type = EventStreamEnd

\* the engine's parse primitive, if called now, reports success
EngineDelivers == engine # <<>> /\ Head(engine).ok

\* ... reports failure with a non-trivial error state
EngineFailsHard ==
    engine # <<>> /\ ~Head(engine).ok /\ Head(engine).error # yaml_NO_ERROR

\* ... reports failure with the no-error state
EngineFailsBenign ==
    engine # <<>> /\ ~Head(engine).ok /\ Head(engine).error = yaml_NO_ERROR

\* C1: once a Next call has returned absent with no error, or has returned
\* the StreamEnd event, every later Next call returns absent with no error,
\* whatever the engine would still deliver.
C1_ExhaustionIdempotence ==
    [][ (Exhausted /\ IsNextCall) => AbsentOk(res') ]_vars

\* C1 witness: Next was called again and again after exhaustion, on an
\* engine that still has an event to deliver, and returned absent.
C1_Witness ==
    /\ calls = MaxCalls
    /\ Exhausted
    /\ AbsentOk(res)
    /\ EngineDelivers

\* C2: in a driver run in which NewParser succeeded, Close has been executed
\* when the process has terminated, on every exit path.
C2_GuaranteedRelease ==
    (pc = "exited" /\ created) => closes >= 1

\* C3: a Next call fails iff the adapter is not complete and the engine's
\* parse primitive reports failure with a non-trivial error state; the error
\* then carries the engine's problem text, no event is returned and the
\* stream is not marked complete.
C3_ParseErrorIff ==
    [][ IsNextCall =>
          /\ (res'.err # NoError) <=> (~done /\ EngineFailsHard)
          /\ (~done /\ EngineFailsHard) =>
                /\ res'.err = <<"parser error: ", Head(engine).problem>>
                /\ ~res'.present
                /\ ~done' ]_vars

\* C3 witness: a Next call has failed with the engine's problem text and
\* the adapter is not complete.
C3_Witness ==
    /\ calls > 0
    /\ AbsentErr(res)
    /\ res.err[2] = "found unexpected end of stream"
    /\ ~done

\* C4: every Next call returns (event, no error), (absent, no error) or
\* (absent, error), never an event with an error; (absent, no error) is
\* returned exactly when the stream was already complete or the engine
\* reports failure with the no-error state, and then the stream is complete.
C4_ThreeOutcomes ==
    [][ IsNextCall =>
          /\ PresentOk(res') \/ AbsentOk(res') \/ AbsentErr(res')
          /\ ~(res'.present /\ res'.err # NoError)
          /\ AbsentOk(res') <=> (done \/ EngineFailsBenign)
          /\ (~done /\ EngineFailsBenign) => done' ]_vars

\* C4 witness: the first Next call met benign exhaustion: absent, no error,
\* stream marked complete.
C4_Witness ==
    /\ calls = 1
    /\ AbsentOk(res)
    /\ done
    /\ parser.error = yaml_NO_ERROR

\* C5 as claimed: after a Next call has failed, no later Next call returns
\* an event, whatever the engine returns on later parse calls.
C5_ErrorTerminal ==
    [][ (failed /\ IsNextCall) => ~res'.present ]_vars

\* C5 as amended: after a Next call has failed, a later Next call returns an
\* event exactly when the stream is not exhausted and the engine's parse
\* primitive reports success on that call; the adapter does not latch the
\* error, and while the engine keeps failing no event is returned.
C5_ErrorTerminalIfEngineIs ==
    [][ (failed /\ IsNextCall) =>
          (res'.present <=> (~Exhausted /\ EngineDelivers)) ]_vars

\* C5 witness: a Next call failed, a later call found the engine failing
\* again and returned no event, and the call after it, the engine reporting
\* success, returned an event.
C5_Witness ==
    /\ failed
    /\ calls = 3
    /\ engine = <<>>
    /\ PresentOk(res)
    /\ res.event.Type = EventScalar
    /\ parser.error # yaml_NO_ERROR
    /\ stdout = <<>>

\* the kind table of the adapter
KindTable ==
    [ k \in RecognizedKinds |->
        CASE k = "yaml_STREAM_START_EVENT"   -> EventStreamStart
          [] k = "yaml_STREAM_END_EVENT"     -> EventStreamEnd
          [] k = "yaml_DOCUMENT_START_EVENT" -> EventDocumentStart
          [] k = "yaml_DOCUMENT_END_EVENT"   -> EventDocumentEnd
          [] k = "yaml_ALIAS_EVENT"          -> EventAlias
          [] k = "yaml_SCALAR_EVENT"         -> EventScalar
          [] k = "yaml_SEQUENCE_START_EVENT" -> EventSequenceStart
          [] k = "yaml_SEQUENCE_END_EVENT"   -> EventSequenceEnd
          [] k = "yaml_MAPPING_START_EVENT"  -> EventMappingStart
          [] k = "yaml_MAPPING_END_EVENT"    -> EventMappingEnd ]

\* C6: when the engine produces an internal event of one of the ten kinds,
\* Next returns a present event of the corresponding public kind; the
\* stream-end event is returned as a StreamEnd event on the call that marks
\* the stream complete, and an event of no other kind marks it complete.
C6_KindTranslation ==
    [][ (IsNextCall /\ ~done /\ EngineDelivers) =>
          LET k == Head(engine).event.typ IN
          /\ k \in RecognizedKinds =>
                /\ PresentOk(res')
                /\ res'.event.Type = KindTable[k]
          /\ done' <=> (k = "yaml_STREAM_END_EVENT")
          /\ k = "yaml_STREAM_END_EVENT" =>
                PresentOk(res') /\ res'.event.Type = EventStreamEnd ]_vars

\* C6 witness: a sequence-end event was translated, the stream is not
\* complete.
C6_Witness ==
    /\ calls = 1
    /\ yamlEvent.typ = "yaml_SEQUENCE_END_EVENT"
    /\ PresentOk(res)
    /\ res.event.Type = EventSequenceEnd
    /\ ~done

\* C7: every event Next returns has, whatever the internal event carried,
\* an empty value unless Scalar, an empty anchor unless Alias, Scalar,
\* SequenceStart or MappingStart, an empty tag and zero style unless Scalar,
\* SequenceStart or MappingStart, and implicit false unless DocumentStart,
\* DocumentEnd, Scalar, SequenceStart or MappingStart.
C7_KindFieldConsistency ==
    res.present =>
        LET e == res.event
            node == {EventScalar, EventSequenceStart, EventMappingStart}
        IN  /\ e.Type # EventScalar => e.Value = <<>>
            /\ e.Type \notin (node \cup {EventAlias}) => e.Anchor = <<>>
            /\ e.Type \notin node => e.Tag = <<>> /\ e.Style = 0
            /\ e.Type \notin (node \cup {EventDocumentStart, EventDocumentEnd})
                  => e.Implicit = FALSE

\* C7 witness: the engine's sequence-end event carried a value, an anchor, a
\* tag, a style and the implicit flag; the SequenceEnd event returned
\* carries none of them.
C7_Witness ==
    /\ res.present
    /\ res.event.Type = EventSequenceEnd
    /\ yamlEvent.value = Bytes(<<"v">>)
    /\ yamlEvent.anchor = Bytes(<<"a">>)
    /\ yamlEvent.tag = Bytes(<<"t">>)
    /\ yamlEvent.style # 0
    /\ yamlEvent.implicit
    /\ res.event.Anchor = <<>>

\* C8: every event Next returns, of any kind, has the start and end
\* positions and each of the four comment slots of the internal event, each
\* slot independently of the other three.
C8_PositionsAndComments ==
    res.present =>
        /\ res.event.StartMark.Index  = yamlEvent.start_mark.index
        /\ res.event.StartMark.Line   = yamlEvent.start_mark.line
        /\ res.event.StartMark.Column = yamlEvent.start_mark.column
        /\ res.event.EndMark.Index    = yamlEvent.end_mark.index
        /\ res.event.EndMark.Line     = yamlEvent.end_mark.line
        /\ res.event.EndMark.Column   = yamlEvent.end_mark.column
        /\ res.event.HeadComment = yamlEvent.head_comment
        /\ res.event.LineComment = yamlEvent.line_comment
        /\ res.event.FootComment = yamlEvent.foot_comment
        /\ res.event.TailComment = yamlEvent.tail_comment

\* C8 witness: an event of an unrecognized kind was returned with a mixed
\* combination of comment slots: head absent, line present, foot present
\* and empty, tail absent.
C8_Witness ==
    /\ res.present
    /\ yamlEvent.typ = "yaml_TAIL_COMMENT_EVENT"
    /\ res.event.StartMark.Line = MaxLine
    /\ res.event.HeadComment.isnil
    /\ res.event.LineComment = Bytes(<<"l">>)
    /\ res.event.FootComment = Bytes(<<>>)
    /\ res.event.TailComment.isnil

\* C9: the driver ends with status 0 exactly when NewParser succeeded and a
\* Next call returned absent with no error, with status 1 exactly when
\* NewParser failed or a Next call returned an error; a failure writes its
\* diagnostic to standard error and nothing else is ever written there.
C9_ExitStatus ==
    /\ pc # "exited" => (status = -1 /\ stderr = <<>>)
    /\ pc = "exited" =>
          /\ status \in {0, 1}
          /\ status = 0 <=> (created /\ calls > 0 /\ AbsentOk(res))
          /\ status = 1 <=> (~created \/ failed)
          /\ status = 0 => stderr = <<>>
          /\ ~created =>
                stderr = << <<"Error creating parser: ",
                              "failed to initialize YAML parser">> >>
          /\ failed =>
                stderr = << <<"Parser error: ", "parser error: ",
                              parser.problem>> >>

\* C9 witness: the run ended with status 1 on a ParseError after an event.
C9_Witness ==
    /\ pc = "exited"
    /\ status = 1
    /\ created
    /\ failed
    /\ Len(returned) >= 1

RECURSIVE RenderAll(_)
\* the blocks of a sequence of events, in order
RenderAll(events) ==
    IF events = <<>> THEN <<>>
    ELSE RenderBlock(Head(events)) \o RenderAll(Tail(events))

\* all but the last element
Front(sq) == SubSeq(sq, 1, Len(sq) - 1)

\* C10: standard output is at every point the blocks of the events Next has
\* returned so far, one block per event in the order returned, the latest
\* event being rendered before the next Next call; when the run ends with a
\* ParseError the blocks of all events returned before are in place.
C10_OrderPreservingOutput ==
    /\ pc # "render" => stdout = RenderAll(returned)
    /\ pc = "render" =>
          /\ returned # <<>>
          /\ res.event = returned[Len(returned)]
          /\ stdout = RenderAll(Front(returned))

\* C10 witness: the run ended with a ParseError after two different events;
\* both blocks are on standard output.
C10_Witness ==
    /\ pc = "exited"
    /\ failed
    /\ Len(returned) = 2
    /\ returned[1] # returned[2]
    /\ stdout = RenderBlock(returned[1]) \o RenderBlock(returned[2])


\* what a driver run must have written and how it must have ended once the
\* engine has delivered the results rs, starting from output out with the
\* stream complete or not
RECURSIVE RefRun(_, _, _)
RefRun(rs, complete, out) ==
    IF rs = <<>>
    THEN [stdout |-> out, stderr |-> <<>>,
          status |-> IF complete THEN 0 ELSE -1]
    ELSE IF Head(rs).ok
         THEN RefRun(Tail(rs),
                     Head(rs).event.typ = "yaml_STREAM_END_EVENT",
                     out \o RenderBlock(FillKind(BaseEvent(Head(rs).event),
                                                 Head(rs).event)))
         ELSE IF Head(rs).error # yaml_NO_ERROR
              THEN [stdout |-> out,
                    stderr |-> << <<"Parser error: ", "parser error: ",
                                    Head(rs).problem>> >>,
                    status |-> 1]
              ELSE [stdout |-> out, stderr |-> <<>>, status |-> 0]

\* C11: the rendered output, the error output and the exit status of a
\* driver run are a function of the results the engine delivered (and of
\* whether NewParser succeeded): two runs whose engines deliver the same
\* results end with the same three.
C11_Determinism ==
    /\ (pc = "exited" /\ created) =>
          LET ref == RefRun(delivered, FALSE, <<>>) IN
          /\ stdout = ref.stdout
          /\ stderr = ref.stderr
          /\ status = ref.status
    /\ (pc = "exited" /\ ~created) =>
          /\ stdout = <<>>
          /\ stderr = << <<"Error creating parser: ",
                           "failed to initialize YAML parser">> >>
          /\ status = 1
    /\ pc \in {"loop", "return"} =>
          stdout = RefRun(delivered, FALSE, <<>>).stdout

\* C11 witness: a run that rendered two events with comments and then met
\* a parse error has ended.
C11_Witness ==
    /\ pc = "exited"
    /\ created
    /\ Len(delivered) = 3
    /\ delivered[1].ok /\ delivered[2].ok /\ ~delivered[3].ok
    /\ delivered[1].event.head_comment = Bytes(<<"h">>)
    /\ status = 1
    /\ Len(stdout) > 8

\* C12: in a driver run Close is called at most once, exactly once when the
\* run ends normally, and no Next call is made after Close, after a Next
\* call that returned absent or after a Next call that returned an error.
C12_CallDiscipline ==
    [][ /\ closes' <= 1
        /\ (pc' = "exited" /\ status' = 0) => closes' = 1
        /\ IsNextCall =>
              /\ closes = 0
              /\ ~failed
              /\ ~(calls > 0 /\ ~res.present) ]_vars

\* C12 witness: a run made three Next calls, the last one returned absent,
\* and ended normally with one Close.
C12_Witness ==
    /\ pc = "exited"
    /\ status = 0
    /\ closes = 1
    /\ calls = 3
    /\ AbsentOk(res)
    /\ Len(returned) = 2


\* C13: style resolution is defined for every kind and every raw style code:
\* for Scalar one of plain, single-quoted, double-quoted, literal, folded,
\* and any for every other code; for SequenceStart and MappingStart flow,
\* block, and any for every other code; for every other kind the empty
\* indicator whatever the code.
C13_StyleResolution ==
    probeStyle # "unset" =>
        LET k == probeEvent.Type
            c == probeEvent.Style
        IN  /\ k = EventScalar =>
                  /\ probeStyle \in {"plain", "single-quoted", "double-quoted",
                                     "literal", "folded", "any"}
                  /\ probeStyle = "plain" <=> c = yaml_PLAIN_SCALAR_STYLE
                  /\ probeStyle = "single-quoted" <=> c = yaml_SINGLE_QUOTED_SCALAR_STYLE
                  /\ probeStyle = "double-quoted" <=> c = yaml_DOUBLE_QUOTED_SCALAR_STYLE
                  /\ probeStyle = "literal" <=> c = yaml_LITERAL_SCALAR_STYLE
                  /\ probeStyle = "folded" <=> c = yaml_FOLDED_SCALAR_STYLE
            /\ k \in {EventSequenceStart, EventMappingStart} =>
                  /\ probeStyle \in {"flow", "block", "any"}
                  /\ probeStyle = "flow" <=> c = yaml_FLOW_SEQUENCE_STYLE
                  /\ probeStyle = "block" <=> c = yaml_BLOCK_SEQUENCE_STYLE
            /\ k \notin {EventScalar, EventSequenceStart, EventMappingStart} =>
                  probeStyle = ""

\* C13 witness: the style of an Alias event with a non-zero style code was
\* asked and resolved to the empty indicator.
C13_Witness ==
    /\ probeEvent.Type = EventAlias
    /\ probeEvent.Style = 2
    /\ probeStyle = ""


\* main has rendered the block of the one event Next returned
Rendered == pc = "loop" /\ Len(returned) = 1 /\ stdout # <<>>

\* the lines of a block that begin with one of the given labels, in order
LinesLabelled(lines, labels) ==
    LET Labelled(l) == l # <<>> /\ l[1] \in labels
    IN  SelectSeq(lines, Labelled)

CommentLabels ==
    {"  HeadComment: ", "  LineComment: ", "  FootComment: ", "  TailComment: "}

ExtraLabels ==
    {"  Value: ", "  Style: ", "  Tag: ", "  Anchor: ", "  Implicit: "}

\* C14: a style line is written for a Scalar event iff the resolved style is
\* neither empty nor "plain", for a SequenceStart or MappingStart event iff
\* it is neither empty nor "block" (so "any" is written for all three), and
\* for no other kind.
C14_StyleLine ==
    Rendered =>
        LET e == returned[1]
            st == StyleString(e)
            shown == \/ e.Type = EventScalar /\ st \notin {"", "plain"}
                     \/ /\ e.Type \in {EventSequenceStart, EventMappingStart}
                        /\ st \notin {"", "block"}
        IN  /\ LinesLabelled(stdout, {"  Style: "}) =
                  IF shown THEN << <<"  Style: ", st>> >> ELSE << >>
            /\ (e.Type \in {EventScalar, EventSequenceStart, EventMappingStart}
                /\ st = "any") => shown

\* C14 witness: a SequenceStart event of unspecified style was rendered with
\* the style line "any".
C14_Witness ==
    /\ Rendered
    /\ returned[1].Type = EventSequenceStart
    /\ returned[1].Style = 0
    /\ LinesLabelled(stdout, {"  Style: "}) = << <<"  Style: ", "any">> >>

\* the labelled line of one comment field, if it is present and non-empty
ExpectedComment(label, c) ==
    IF c.isnil \/ c.data = <<>>
    THEN << >>
    ELSE << <<label, "\"">> \o c.data \o <<"\"">> >>

\* C15: for each of the four comment fields independently, its labelled line
\* is written iff the field is present and non-empty; an absent field and a
\* present empty one give no line; the lines come in the order head, line,
\* foot, tail, after the three header lines.
C15_CommentLines ==
    Rendered =>
        LET e == returned[1]
            expected == ExpectedComment("  HeadComment: ", e.HeadComment)
                        \o ExpectedComment("  LineComment: ", e.LineComment)
                        \o ExpectedComment("  FootComment: ", e.FootComment)
                        \o ExpectedComment("  TailComment: ", e.TailComment)
        IN  /\ LinesLabelled(stdout, CommentLabels) = expected
            /\ SubSeq(stdout, 4, 3 + Len(expected)) = expected

\* C15 witness: an event with the head comment absent, the line comment
\* present and empty, and the foot and tail comments non-empty was rendered
\* with the foot and tail lines only.
C15_Witness ==
    /\ Rendered
    /\ returned[1].HeadComment.isnil
    /\ returned[1].LineComment = Bytes(<<>>)
    /\ returned[1].FootComment = Bytes(<<"f">>)
    /\ returned[1].TailComment = Bytes(<<"x">>)
    /\ Len(LinesLabelled(stdout, CommentLabels)) = 2

\* C16: the implicit line is written exactly for Scalar, SequenceStart,
\* MappingStart, DocumentStart and DocumentEnd events, whatever the flag; the
\* anchor line for every Alias event, even with an empty anchor, and for
\* Scalar, SequenceStart and MappingStart only with a non-empty anchor; for
\* StreamStart, StreamEnd, SequenceEnd, MappingEnd and None no extra line.
C16_KindBlock ==
    Rendered =>
        LET e == returned[1]
            node == {EventScalar, EventSequenceStart, EventMappingStart}
        IN  /\ LinesLabelled(stdout, {"  Implicit: "}) =
                  IF e.Type \in node \cup {EventDocumentStart, EventDocumentEnd}
                  THEN << <<"  Implicit: ", IF e.Implicit THEN "true" ELSE "false">> >>
                  ELSE << >>
            /\ LinesLabelled(stdout, {"  Anchor: "}) =
                  IF e.Type = EventAlias \/ (e.Type \in node /\ e.Anchor # <<>>)
                  THEN << <<"  Anchor: ">> \o e.Anchor >>
                  ELSE << >>
            /\ e.Type \in {EventStreamStart, EventStreamEnd, EventSequenceEnd,
                           EventMappingEnd, EventNone}
                  => LinesLabelled(stdout, ExtraLabels) = << >>

\* C16 witness: an Alias event with an empty anchor was rendered with an
\* anchor line and no implicit line.
C16_Witness ==
    /\ Rendered
    /\ returned[1].Type = EventAlias
    /\ returned[1].Anchor = <<>>
    /\ LinesLabelled(stdout, ExtraLabels) = << <<"  Anchor: ">> >>


\* C17: a Next call invokes the engine's parse primitive exactly once when
\* the stream is not marked complete and not at all when it is, so that a
\* call on a completed adapter leaves the engine and its cursor as they
\* were; and a call yields zero or one event.
C17_EnginePulls ==
    [][ IsNextCall =>
          /\ ~done => /\ engine # <<>>
                      /\ engine' = Tail(engine)
                      /\ Len(delivered') = Len(delivered) + 1
          /\ done  => /\ engine' = engine
                      /\ parser' = parser
                      /\ delivered' = delivered
          /\ res'.present => Len(delivered') = Len(delivered) + 1 ]_vars

\* C17 witness: two engine results were pulled in four Next calls; the
\* engine still holds an undelivered event.
C17_Witness ==
    /\ calls = 4
    /\ done
    /\ Len(delivered) = 2
    /\ engine # <<>>
    /\ Head(engine).ok
    /\ closes = 0

\* C18: a Next call releases the internal event record exactly once when the
\* engine produced an event, of a recognized kind or not, and not otherwise;
\* it does not release the engine, which only Close releases.
C18_TransientRelease ==
    [][ /\ IsNextCall =>
              /\ deletes' = deletes + (IF ~done /\ EngineDelivers THEN 1 ELSE 0)
              /\ closes' = closes
        /\ closes' # closes => (~IsNextCall /\ deletes' = deletes) ]_vars

\* C18 witness: an event of an unrecognized kind was returned and its
\* internal record released; the engine is not released.
C18_Witness ==
    /\ calls > 0
    /\ yamlEvent.typ \in UnrecognizedKinds
    /\ PresentOk(res)
    /\ deletes = Len(delivered)
    /\ deletes > 0
    /\ closes = 0

\* C20: Next returns a present event of kind None exactly when the engine
\* produced an internal event of none of the ten recognized kinds; that
\* event comes with no error, has the positions and comments of the internal
\* event and every other field at its default, and does not mark the stream
\* complete.
C20_NoneOnlyUnrecognized ==
    [][ IsNextCall =>
          LET unrecognized == /\ ~done
                              /\ EngineDelivers
                              /\ Head(engine).event.typ \notin RecognizedKinds
          IN  /\ (res'.present /\ res'.event.Type = EventNone) <=> unrecognized
              /\ unrecognized =>
                    /\ res'.err = NoError
                    /\ res'.event =
                          [ZeroEvent EXCEPT
                             !.StartMark = [Index |-> Head(engine).event.start_mark.index,
                                            Line |-> Head(engine).event.start_mark.line,
                                            Column |-> Head(engine).event.start_mark.column],
                             !.EndMark = [Index |-> Head(engine).event.end_mark.index,
                                          Line |-> Head(engine).event.end_mark.line,
                                          Column |-> Head(engine).event.end_mark.column],
                             !.HeadComment = Head(engine).event.head_comment,
                             !.LineComment = Head(engine).event.line_comment,
                             !.FootComment = Head(engine).event.foot_comment,
                             !.TailComment = Head(engine).event.tail_comment]
                    /\ ~done' ]_vars

\* C20 witness: the engine's tail-comment event, carrying a value, an
\* anchor and a comment, was returned as a None event; the stream is not
\* complete.
C20_Witness ==
    /\ calls = 1
    /\ yamlEvent.typ = "yaml_TAIL_COMMENT_EVENT"
    /\ yamlEvent.value = Bytes(<<"v">>)
    /\ yamlEvent.anchor = Bytes(<<"a">>)
    /\ res.present
    /\ res.event.Type = EventNone
    /\ res.event.FootComment = Bytes(<<"f">>)
    /\ res.event.Anchor = <<>>
    /\ ~done


\* C19: no text or byte field of an event Next has returned shares storage
\* with the internal event or the engine, so that no later engine activity,
\* Next call or Close changes what the caller reads in an event it keeps.
C19_NoAliasing ==
    [][ kept.set =>
          /\ \A slot \in CommentSlots : kept.buf[slot] = 0
          /\ KeptEvent' = KeptEvent ]_vars

\* C19, the effect alone: what the caller reads in the event it keeps never
\* changes.
C19_KeptEventStable ==
    [][ kept.set => KeptEvent' = KeptEvent ]_vars

=============================================================================
